---- MODULE Spec2Model ----
(***************************************************************************)
(* Model of the incremental bill-cache builder, api/build-bill-cache.js:   *)
(* the handler that bootstraps a cursor row in lims_cache_cursor, then     *)
(* processes BATCH_SIZE bill numbers per invocation and advances the       *)
(* cursor, until the cursor is completed.                                  *)
(*                                                                         *)
(* One action is one whole invocation of the handler along one of its      *)
(* paths.  The answers of the outside world during the invocation (the     *)
(* Supabase store and the LIMS proxy) are the inputs of the action.        *)
(***************************************************************************)
EXTENDS Integers, Sequences, FiniteSets, TLC

\* ---------------------------------------------------------------- bounds --
\* BATCH_SIZE and PAGE_SIZE are 20 and 100 in build-bill-cache.js (lines 31
\* and 30); the model runs them scaled down, with the upstream result sets
\* scaled accordingly.
BATCH_SIZE == 2
PAGE_SIZE == 2
\* The upstream holds at most MaxBills records of category 1 (bills) and
\* MaxRecords records in all; the others are of category 6 (resolutions).
MaxBills == 3
MaxRecords == 7
\* A failing limsPost call of a bootstrap is one of its first MaxFailAt calls.
MaxFailAt == 2

\* ------------------------------------------------------------- constants --
COUNCIL_PERIOD == 26

Null == 0

Min(a, b) == IF a <= b THEN a ELSE b

\* const CATEGORY_IDS = [1, 6]
CATEGORY_IDS == <<1, 6>>

\* ------------------------------------------------------------- variables --
VARIABLES
    lims_cache_cursor,  \* the cursor table for COUNCIL_PERIOD: <<>> or <<row>>
    lims_bill_cache,    \* the cache table: a set of rows, one per bill_number
    req,                \* the request of the last invocation
    res,                \* the response of the last invocation
    log,                \* what the last invocation did: the path it took, the
                        \* cursor rows sbGet returned, the bill numbers it
                        \* fetched details for and upserted, in order, and
                        \* the numbers of search calls and cursor writes
    batches,            \* cursor writes of batch steps since the cursor row
                        \* was created (history)
    attempted,          \* bill numbers a detail fetch was issued for since
                        \* the cursor row was created (history)
    caller,             \* the run loop of the file header, when one is followed
    inflight,           \* invocations that overlap: what each has read so far
    trial,              \* inputs and results of an operation tried in isolation
    tick,               \* parity of the number of invocations so far; the
                        \* clock that new Date() reads
    tracked_items,      \* the tracked_items table: a row per item id
    bill_status_history, \* the bill_status_history table, in insertion order
    keyword_alert_log,  \* the keyword_alert_log table: a set of rows
    run                 \* the check-hearings invocation under way or last
                        \* finished: its position, its requests and results

\* The tables and the position of the check-hearings endpoint.
detector == <<tracked_items, bill_status_history, keyword_alert_log, run>>

vars == <<lims_cache_cursor, lims_bill_cache, req, res, log, batches, attempted,
          caller, inflight, trial, tick, detector>>

\* Bounds of the check-hearings models: the tracked items, the items of one
\* Promise.all batch (3 in the source, scaled), and the stored status events.
MaxTracked == 3

HEARING_BATCH_SIZE == 2

MaxEvents == 2

TrackedIds == 1..MaxTracked

\* A row of tracked_items.  Rows 1 and 2 are bills (bill_number set, not a
\* manual entry); the status of row 2 has never been recorded.
TrackedRow(i) ==
    [status |-> IF i = 2 THEN "" ELSE "Introduced",
     next_hearing_date |-> Null,
     bill_number |-> IF i \in {1, 2} THEN i ELSE Null,
     action_status |-> IF i = 1 THEN "action_needed" ELSE "none"]

NoRun == [handler |-> "none", pc |-> "done"]

\* Invocations that may run at the same time, and what one holds between
\* its read of the cursor row and its write: the rows sbGet returned.
Invocations == {"a", "b"}

Idle == [pc |-> "idle", rows |-> <<>>]

\* ------------------------------------------------------ upstream (LIMS) ---
\* The k-th record the upstream ever holds.  The first MaxBills records are
\* the bills 1..MaxBills.  Of the resolutions, the first carries the number of
\* the last bill (one legislationNumber under two categories), the second has
\* no legislationNumber, and the others carry fresh numbers.
UpstreamRecord(k) ==
    IF k <= MaxBills
    THEN [categoryId |-> 1, legislationNumber |-> k]
    ELSE [categoryId |-> 6,
          legislationNumber |->
              IF k = MaxBills + 1 THEN MaxBills
              ELSE IF k = MaxBills + 2 THEN Null
              ELSE k - 2]

\* The upstream holds the first n records when a bootstrap runs.
Catalogs == 0..MaxRecords

\* All matches of SearchLegislation for CategoryId, in upstream order.
RECURSIVE CatalogResults(_, _)
CatalogResults(n, categoryId) ==
    IF n = 0 THEN <<>>
    ELSE IF UpstreamRecord(n).categoryId = categoryId
         THEN Append(CatalogResults(n - 1, categoryId), UpstreamRecord(n))
         ELSE CatalogResults(n - 1, categoryId)

\* Every bill number that can ever be a candidate.
BillNumbers == 1..(MaxRecords - 2)

\* SearchLegislation with RowLimit: PAGE_SIZE, OffSet: offset
SearchLegislation(results, offset) ==
    IF offset >= Len(results) THEN <<>>
    ELSE SubSeq(results, offset + 1, Min(offset + PAGE_SIZE, Len(results)))

\* ------------------------------------------------- bootstrap pagination ---
\* Faulty variant of ForEachPage: no test against seen before the push.
RECURSIVE ForEachPageNoSeen(_, _, _)
ForEachPageNoSeen(page, i, acc) ==
    IF i > Len(page) THEN acc
    ELSE LET b == page[i]
         IN  IF b.legislationNumber # Null
             THEN ForEachPageNoSeen(page, i + 1,
                      [seen |-> acc.seen \cup {b.legislationNumber},
                       allBillNumbers |-> Append(acc.allBillNumbers, b.legislationNumber)])
             ELSE ForEachPageNoSeen(page, i + 1, acc)

\* page.forEach(b => { if (b.legislationNumber && !seen.has(...)) {...} })
RECURSIVE ForEachPage(_, _, _)
ForEachPage(page, i, acc) ==
    IF i > Len(page) THEN acc
    ELSE LET b == page[i]
         IN  IF b.legislationNumber # Null /\ b.legislationNumber \notin acc.seen
             THEN ForEachPage(page, i + 1,
                      [seen |-> acc.seen \cup {b.legislationNumber},
                       allBillNumbers |-> Append(acc.allBillNumbers, b.legislationNumber)])
             ELSE ForEachPage(page, i + 1, acc)

\* The state of the loops before the first search: nothing seen, no call
\* made.  requests lists the search calls that were answered, each with its
\* CategoryId and OffSet and the page it got; the answer of the call number
\* notArrayAt is JSON that is no array (0: every answer is an array).
NoCollected ==
    [acc |-> [seen |-> {}, allBillNumbers |-> <<>>], calls |-> 0, threw |-> FALSE,
     categoryId |-> 0, requests |-> <<>>, notArrayAt |-> 0]

\* Faulty variant of NextOffset: the offset counts pages, not rows.
NextOffsetByOne(offset) == offset + 1

\* offset += PAGE_SIZE
NextOffset(offset) == offset + PAGE_SIZE

\* The while (true) loop over the pages of one category.  st.calls counts the
\* limsPost calls made so far in the invocation; the call number failAt throws
\* (0: no call throws), and the exception leaves the loops.
RECURSIVE CollectCategory(_, _, _, _)
CollectCategory(results, offset, st, failAt) ==
    IF st.calls + 1 = failAt
    THEN [st EXCEPT !.calls = @ + 1, !.threw = TRUE]
    ELSE LET isArray == st.calls + 1 # st.notArrayAt
             page == IF isArray THEN SearchLegislation(results, offset) ELSE <<>>
             st1  == [st EXCEPT
                        !.calls = @ + 1,
                        !.requests = Append(@, [categoryId |-> st.categoryId,
                                                offset |-> offset,
                                                isArray |-> isArray,
                                                page |-> page])]
         IN  IF ~isArray \/ Len(page) = 0 THEN st1
             ELSE LET st2 == [st1 EXCEPT !.acc = ForEachPage(page, 1, @)]
                  IN  IF Len(page) < PAGE_SIZE THEN st2
                      ELSE CollectCategory(results, NextOffset(offset), st2, failAt)

\* for (const categoryId of CATEGORY_IDS) { ... }
RECURSIVE CollectAll(_, _, _, _)
CollectAll(cat, k, st, failAt) ==
    IF k > Len(CATEGORY_IDS) \/ st.threw THEN st
    ELSE CollectAll(cat, k + 1,
             CollectCategory(CatalogResults(cat, CATEGORY_IDS[k]), 0,
                             [st EXCEPT !.categoryId = CATEGORY_IDS[k]], failAt),
             failAt)

CollectBillNumbers(cat, failAt) ==
    CollectAll(cat, 1, NoCollected, failAt)

\* ------------------------------------------------------------ batch step ---
\* What can happen to one bill number of the batch, with the details the
\* upstream answers.  ok: the detail fetch and the upsert succeed.
\* fetch_fail: limsGet throws.  store_fail: sbUpsert throws.  not_found: the
\* upstream answers 404, which the proxy relays (hello.js lines 55-63) and
\* limsGet throws on (!r.ok).  empty: the upstream answers 200 with {}.
Outcome(kind, details) == [kind |-> kind, details |-> details]

Outcomes ==
    {Outcome("ok", "v1"), Outcome("fetch_fail", "none"), Outcome("store_fail", "v1")}

\* The outcomes of a bill number that does not exist upstream.
MissingOutcomes == {Outcome("not_found", "none"), Outcome("empty", "empty")}

\* Faulty variant of Upsert: a plain insert, the row is added beside the one
\* the table holds for the bill number.
UpsertAppend(table, row) == table \cup {row}

\* sbUpsert with Prefer: resolution=merge-duplicates, on the primary key
\* bill_number.
Upsert(table, row) ==
    {x \in table : x.bill_number # row.bill_number} \cup {row}

\* The row the batch step builds from the details of a bill number.
CacheRow(billNum, details, now) ==
    [bill_number |-> billNum, details |-> details, cached_at |-> now]

\* The bill numbers that hold a row of the cache table.
CachedNumbers(table) == {x.bill_number : x \in table}

\* limsGet returned and sbUpsert succeeded.
Upserts(outcome) == outcome.kind \in {"ok", "empty"}

\* Faulty variants of BatchEnd: the end of the slice is not clamped to the
\* length of the list; the position advances by one, not by the batch size.
BatchEndNoMin(cursor) == cursor.position + BATCH_SIZE
BatchEndOne(cursor) == Min(cursor.position + 1, Len(cursor.bill_numbers))

\* const end = Math.min(start + BATCH_SIZE, billNumbers.length)
BatchEnd(cursor) == Min(cursor.position + BATCH_SIZE, Len(cursor.bill_numbers))

\* Array.prototype.slice(start, end): end is clamped to the length.
Slice(s, start, end) == SubSeq(s, start + 1, Min(end, Len(s)))

\* The bill numbers of a sequence.
Range(s) == {s[i] : i \in 1..Len(s)}

\* billNumbers.slice(start, end)
\* Faulty variant of Batch: the slice starts one past the position.
BatchSkipFirst(cursor) ==
    Slice(cursor.bill_numbers, cursor.position + 1, BatchEnd(cursor))

Batch(cursor) == Slice(cursor.bill_numbers, cursor.position, BatchEnd(cursor))

\* Faulty variant of ProcessBatch: no try/catch inside the loop, the first
\* failure ends the loop.
RECURSIVE ProcessBatchAbort(_, _, _, _)
ProcessBatchAbort(batch, i, oc, st) ==
    IF i > Len(batch) THEN st
    ELSE LET billNum == batch[i]
             st1 == [st EXCEPT !.fetched = Append(@, billNum),
                               !.missing = IF oc[i] \in MissingOutcomes
                                           THEN Append(@, billNum) ELSE @]
         IN  IF Upserts(oc[i])
             THEN ProcessBatchAbort(batch, i + 1, oc,
                      [st1 EXCEPT !.cache = Upsert(@, CacheRow(billNum, oc[i].details, st.now)),
                                  !.upserts = Append(@, billNum),
                                  !.upserted = @ + 1])
             ELSE [st1 EXCEPT !.errors = @ + 1]

\* for (const billNum of batch) { try { limsGet; sbUpsert; upserted++ }
\*                                catch { errors++ } }
RECURSIVE ProcessBatch(_, _, _, _)
ProcessBatch(batch, i, oc, st) ==
    IF i > Len(batch) THEN st
    ELSE LET billNum == batch[i]
             st1 == [st EXCEPT !.fetched = Append(@, billNum),
                               !.missing = IF oc[i] \in MissingOutcomes
                                           THEN Append(@, billNum) ELSE @]
         IN  IF Upserts(oc[i])
             THEN ProcessBatch(batch, i + 1, oc,
                      [st1 EXCEPT !.cache = Upsert(@, CacheRow(billNum, oc[i].details, st.now)),
                                  !.upserts = Append(@, billNum),
                                  !.upserted = @ + 1])
             ELSE ProcessBatch(batch, i + 1, oc, [st1 EXCEPT !.errors = @ + 1])

\* Faulty variant of Completed: > instead of >=.
CompletedStrict(newPosition, cursor) == newPosition > Len(cursor.bill_numbers)

\* const completed = newPosition >= billNumbers.length
Completed(newPosition, cursor) == newPosition >= Len(cursor.bill_numbers)

\* Faulty variant of StatusTag: the tag is taken from the position the cursor
\* row had when it was read.
StatusTagOfOld(completed, cursor) ==
    IF cursor.position >= Len(cursor.bill_numbers) THEN "complete" ELSE "in_progress"

\* status: completed ? 'complete' : 'in_progress'
StatusTag(completed, cursor) == IF completed THEN "complete" ELSE "in_progress"

\* Faulty variant of SavedCursor: the patch also writes what is left to do
\* into total.
SavedCursorRemaining(cursor) ==
    [cursor EXCEPT !.position = BatchEnd(cursor),
                   !.completed = Completed(BatchEnd(cursor), cursor),
                   !.total = Len(cursor.bill_numbers) - BatchEnd(cursor)]

\* The cursor row after sbPatch wrote position and completed: the other
\* columns keep what the row holds.
SavedCursor(cursor) ==
    [cursor EXCEPT !.position = BatchEnd(cursor),
                   !.completed = Completed(BatchEnd(cursor), cursor)]

\* --------------------------------------------------------------- requests ---
\* cron: the x-vercel-cron header is '1'.  bearer: the authorization header is
\* absent, equals `Bearer ${CRON_SECRET}`, or is something else.  secretSet:
\* CRON_SECRET is configured.  reset: the reset flag of query or body.
Requests ==
    {r \in [cron : BOOLEAN, bearer : {"none", "match", "mismatch"},
            secretSet : BOOLEAN, reset : BOOLEAN] :
        /\ r.cron => r.bearer = "none"
        /\ ~r.secretSet => r.bearer = "match"}

isVercelCron(r) == r.cron
\* Faulty variant of isManual: the header is compared without the test that
\* CRON_SECRET is set.
isManualNoSecretTest(r) == r.bearer = "match"

isManual(r) == r.secretSet /\ r.bearer = "match"
Authorized(r) == isVercelCron(r) \/ isManual(r)

\* What the DELETE of the cursor row can do: not issued, row deleted, request
\* answered with a non-2xx status (ignored by the handler), fetch throws.
DeleteOutcomes(r) == IF r.reset THEN {"deleted", "rejected", "throws"} ELSE {"none"}

\* Faulty variant of AfterReset: the DELETE is issued whether or not reset
\* is set.
AfterResetAlways(r, del) == <<>>

\* The cursor table after the reset block.
AfterReset(r, del) == IF del = "deleted" THEN <<>> ELSE lims_cache_cursor

\* Faulty variant of InitialCursor: completed is derived from position and
\* total.
InitialCursorDerived(allBillNumbers) ==
    [bill_numbers |-> allBillNumbers,
     position |-> 0,
     total |-> Len(allBillNumbers),
     completed |-> (0 >= Len(allBillNumbers))]

\* The cursor row the bootstrap writes.
InitialCursor(allBillNumbers) ==
    [bill_numbers |-> allBillNumbers,
     position |-> 0,
     total |-> Len(allBillNumbers),
     completed |-> FALSE]

\* Faulty variant of BootstrapSlice: the bootstrap goes on with the first
\* batch.
BootstrapSliceFirst(cursor) == Batch(cursor)

\* The bill numbers a bootstrap invocation goes on to process after it wrote
\* the cursor: none, it returns right after the write.
BootstrapSlice(cursor) == <<>>

\* Faulty variant of CursorCompleted: the completed flag is not looked at.
CursorCompletedIgnored(cursor) == FALSE

\* if (cursor.completed) return ...
CursorCompleted(cursor) == cursor.completed

\* Faulty variant of CacheAfterReset: the reset clears the cache table too.
CacheAfterResetCleared(r, del) == IF del = "deleted" THEN {} ELSE lims_bill_cache

\* The cache table after the reset block: the DELETE names lims_cache_cursor
\* only.
CacheAfterReset(r, del) == lims_bill_cache

\* The DELETE requests the reset block issued.
Deletes(del) == IF del = "none" THEN 0 ELSE 1

NoLog == [path |-> "none", error |-> "none", loaded |-> <<>>, fetched |-> <<>>,
          upserts |-> <<>>, missing |-> <<>>, collected |-> <<>>, searches |-> 0,
          deletes |-> 0, reads |-> 0, cursorWrites |-> 0]

NoStats == [cache |-> {}, now |-> 0, fetched |-> <<>>, upserts |-> <<>>,
            missing |-> <<>>, upserted |-> 0, errors |-> 0]

\* The status tag of a response, "none" when it carries none.
ResStatus(response) ==
    IF "status" \in DOMAIN response THEN response.status ELSE "none"

Init ==
    /\ lims_cache_cursor = <<>>
    /\ lims_bill_cache = {}
    /\ req = [cron |-> FALSE, bearer |-> "none", secretSet |-> TRUE, reset |-> FALSE]
    /\ res = [code |-> 0]
    /\ log = NoLog
    /\ batches = 0
    /\ attempted = {}
    /\ caller = "idle"
    /\ inflight = [i \in Invocations |-> Idle]
    /\ trial = [op |-> "none"]
    /\ tick = 0
    /\ tracked_items = [i \in TrackedIds |-> TrackedRow(i)]
    /\ bill_status_history = <<>>
    /\ keyword_alert_log = {}
    /\ run = NoRun

\* ---------------------------------------------------------------- handler ---
\* if (!isVercelCron && !isManual) return res.status(401)
Unauthorized(r) ==
    /\ ~Authorized(r)
    /\ req' = r
    /\ res' = [code |-> 401, error |-> "Unauthorized"]
    /\ log' = [NoLog EXCEPT !.path = "unauthorized"]
    /\ UNCHANGED <<lims_cache_cursor, lims_bill_cache, batches, attempted>>

\* The fetch of the DELETE throws: the handler rejects, nothing else happens.
ResetThrows(r) ==
    /\ Authorized(r)
    /\ "throws" \in DeleteOutcomes(r)
    /\ req' = r
    /\ res' = [code |-> 500]
    /\ log' = [NoLog EXCEPT !.path = "reset_throws", !.error = "reset",
                             !.deletes = 1]
    /\ UNCHANGED <<lims_cache_cursor, lims_bill_cache, batches, attempted>>

\* sbGet of the cursor throws: the handler rejects after the reset block.
CursorReadFails(r) ==
    /\ Authorized(r)
    /\ \E del \in DeleteOutcomes(r) \ {"throws"} :
          /\ lims_cache_cursor' = AfterReset(r, del)
          /\ lims_bill_cache' = CacheAfterReset(r, del)
          /\ batches' = IF AfterReset(r, del) = <<>> THEN 0 ELSE batches
          /\ attempted' = IF AfterReset(r, del) = <<>> THEN {} ELSE attempted
          /\ log' = [NoLog EXCEPT !.path = "read_fails", !.error = "cursor_read",
                                   !.deletes = Deletes(del), !.reads = 1]
    /\ req' = r
    /\ res' = [code |-> 500]

\* Faulty variant of CursorWritten: a search that throws is caught and the
\* bill numbers collected so far are saved.
CursorWrittenAnyway(c, upsertOk) == upsertOk

\* await sbUpsert('lims_cache_cursor', cursor) is reached when no limsPost of
\* the loops threw, and writes the row when the store accepts it.
CursorWritten(c, upsertOk) == ~c.threw /\ upsertOk

\* if (!cursor) { collect the bill numbers; sbUpsert the cursor; return }
\* failAt: the limsPost call that throws (0: none).  upsertOk: sbUpsert of the
\* cursor row succeeds (it is only reached when no limsPost threw).
Bootstrap(r) ==
    /\ Authorized(r)
    /\ \E del \in DeleteOutcomes(r) \ {"throws"}, cat \in Catalogs :
         /\ AfterReset(r, del) = <<>>
         /\ \E failAt \in 0..MaxFailAt, upsertOk \in BOOLEAN :
              \E c \in {CollectBillNumbers(cat, failAt)} :
              LET allBillNumbers == c.acc.allBillNumbers
                  cursor == InitialCursor(allBillNumbers)
                  wrote == CursorWritten(c, upsertOk)
                  slice == IF wrote THEN BootstrapSlice(cursor) ELSE <<>>
              IN  /\ failAt <= c.calls
                  /\ c.threw => upsertOk
                  /\ \E oc \in [1..Len(slice) -> Outcomes] :
                       \E st \in {ProcessBatch(slice, 1, oc,
                                     [NoStats EXCEPT
                                         !.cache = CacheAfterReset(r, del),
                                         !.now = tick])} :
                         /\ lims_bill_cache' = st.cache
                         /\ attempted' = {st.fetched[i] : i \in 1..Len(st.fetched)}
                         /\ log' = [NoLog EXCEPT
                                       !.path = "bootstrap",
                                       !.deletes = Deletes(del),
                                       !.reads = 1,
                                       !.error = IF c.threw THEN "search"
                                                 ELSE IF ~upsertOk THEN "cursor_upsert"
                                                 ELSE "none",
                                       !.searches = c.calls,
                                       !.collected = allBillNumbers,
                                       !.fetched = st.fetched,
                                       !.upserts = st.upserts,
                                       !.cursorWrites = IF wrote THEN 1 ELSE 0]
                  /\ lims_cache_cursor' = IF wrote THEN <<cursor>> ELSE <<>>
                  /\ res' = IF wrote
                            THEN [code |-> 200, status |-> "initialized",
                                  total |-> Len(allBillNumbers)]
                            ELSE [code |-> 500]
    /\ req' = r
    /\ batches' = 0

\* if (cursor.completed) return { status: 'complete', total }
Complete(r) ==
    /\ Authorized(r)
    /\ \E del \in DeleteOutcomes(r) \ {"throws"} :
         LET rows == AfterReset(r, del)
         IN  /\ rows # <<>>
             /\ CursorCompleted(rows[1])
             /\ res' = [code |-> 200, status |-> "complete", total |-> rows[1].total]
             /\ log' = [NoLog EXCEPT !.path = "complete", !.loaded = rows,
                                      !.deletes = Deletes(del), !.reads = 1]
    /\ req' = r
    /\ UNCHANGED <<lims_cache_cursor, lims_bill_cache, batches, attempted>>

\* Process next batch, then save cursor progress with sbPatch.
\* oc: what happens to each bill number, drawn from outcomes.  patchOk:
\* sbPatch succeeds.
BatchStepOn(r, outcomes) ==
    /\ Authorized(r)
    /\ \E del \in DeleteOutcomes(r) \ {"throws"} :
         LET rows == AfterReset(r, del)
         IN  /\ rows # <<>>
             /\ ~CursorCompleted(rows[1])
             /\ LET cursor == rows[1]
                    batch  == Batch(cursor)
                IN  \E oc \in [1..Len(batch) -> outcomes], patchOk \in BOOLEAN :
                      \E st \in {ProcessBatch(batch, 1, oc,
                                    [NoStats EXCEPT
                                        !.cache = CacheAfterReset(r, del),
                                        !.now = tick])} :
                      LET newPosition == BatchEnd(cursor)
                          completed == Completed(newPosition, cursor)
                          remaining == Len(cursor.bill_numbers) - newPosition
                      IN  /\ lims_bill_cache' = st.cache
                          /\ attempted' = attempted \cup
                                {st.fetched[i] : i \in 1..Len(st.fetched)}
                          /\ lims_cache_cursor' =
                                IF patchOk
                                THEN <<SavedCursor(cursor)>>
                                ELSE rows
                          /\ batches' = IF patchOk THEN batches + 1 ELSE batches
                          /\ res' = IF patchOk
                                    THEN [code |-> 200,
                                          upserted |-> st.upserted,
                                          errors |-> st.errors,
                                          position |-> newPosition,
                                          total |-> Len(cursor.bill_numbers),
                                          remaining |-> remaining,
                                          status |-> StatusTag(completed, cursor)]
                                    ELSE [code |-> 500]
                          /\ log' = [NoLog EXCEPT
                                        !.path = "batch",
                                        !.error = IF patchOk THEN "none"
                                                  ELSE "cursor_patch",
                                        !.loaded = rows,
                                        !.fetched = st.fetched,
                                        !.upserts = st.upserts,
                                        !.missing = st.missing,
                                        !.deletes = Deletes(del),
                                        !.reads = 1,
                                        !.cursorWrites = IF patchOk THEN 1 ELSE 0]
    /\ req' = r

\* The batch step under the answers of an upstream that holds every bill
\* number of the candidate list.
BatchStep(r) == BatchStepOn(r, Outcomes)

\* Any invocation, by any caller, under any answers of store and upstream.
Next ==
    \E r \in Requests :
        \/ Unauthorized(r) /\ UNCHANGED <<caller, inflight, trial, tick, detector>>
        \/ ResetThrows(r) /\ UNCHANGED <<caller, inflight, trial, tick, detector>>
        \/ CursorReadFails(r) /\ UNCHANGED <<caller, inflight, trial, tick, detector>>
        \/ Bootstrap(r) /\ UNCHANGED <<caller, inflight, trial, tick, detector>>
        \/ Complete(r) /\ UNCHANGED <<caller, inflight, trial, tick, detector>>
        \/ BatchStep(r) /\ UNCHANGED <<caller, inflight, trial, tick, detector>>

Spec == Init /\ [][Next]_vars

\* ----------------------------------------------- the scheduler, for ever ---
\* The driver invoked again and again by an authorized caller without reset,
\* with every read and write of the cursor row succeeding.  The upstream may
\* fail any search or detail call.
LiveRequests == {r \in Requests : Authorized(r) /\ ~r.reset}

CursorStoreOk == log'.error \in {"none", "search"}

LiveNext ==
    \E r \in LiveRequests :
        \/ Bootstrap(r) /\ CursorStoreOk /\ tick' = 1 - tick /\ UNCHANGED <<caller, inflight, trial, detector>>
        \/ Complete(r) /\ CursorStoreOk /\ tick' = 1 - tick /\ UNCHANGED <<caller, inflight, trial, detector>>
        \/ BatchStep(r) /\ CursorStoreOk /\ tick' = 1 - tick /\ UNCHANGED <<caller, inflight, trial, detector>>

SpecLive == Init /\ [][LiveNext]_vars /\ WF_vars(LiveNext)

\* ------------------------------------------ the run loop of the file header ---
\* do { invoke with the bearer token } while ($body.status -eq "in_progress")
\* A run of the loop is "fresh" when it starts with no cursor row, "resumed"
\* otherwise.  Store and upstream answer every call of these runs.
LoopRequests ==
    {r \in Requests : ~r.cron /\ r.bearer = "match" /\ r.secretSet /\ ~r.reset}

Looping == caller \in {"fresh", "resumed"}

LoopAgain ==
    /\ log'.error = "none"
    /\ caller' = IF ResStatus(res') = "in_progress" THEN caller
                 ELSE IF caller = "fresh" THEN "stopped_fresh" ELSE "stopped_resumed"
    /\ UNCHANGED <<inflight, trial, tick, detector>>

StartLoop ==
    /\ ~Looping
    /\ caller' = IF lims_cache_cursor = <<>> THEN "fresh" ELSE "resumed"
    /\ UNCHANGED <<lims_cache_cursor, lims_bill_cache, req, res, log, batches,
                   attempted, inflight, trial, tick, detector>>

LoopNext ==
    \/ StartLoop
    \/ \E r \in LoopRequests :
        \/ Looping /\ Bootstrap(r) /\ LoopAgain
        \/ Looping /\ Complete(r) /\ LoopAgain
        \/ Looping /\ BatchStep(r) /\ LoopAgain

SpecLoop == Init /\ [][LoopNext]_vars

\* The scheduled trigger, with or without reset.
CronRequests == {r \in Requests : r.cron /\ r.secretSet}

\* ------------------------------ bill numbers the upstream does not hold ---
\* The scheduled trigger without reset, the store and the search answering
\* every call, while bill numbers of the candidate list may be gone upstream.
MissingNext ==
    \E r \in {q \in CronRequests : ~q.reset} :
        \/ Bootstrap(r) /\ log'.error = "none"
              /\ UNCHANGED <<caller, inflight, trial, tick, detector>>
        \/ Complete(r) /\ UNCHANGED <<caller, inflight, trial, tick, detector>>
        \/ BatchStepOn(r, {Outcome("ok", "v1")} \cup MissingOutcomes)
              /\ log'.error = "none"
              /\ UNCHANGED <<caller, inflight, trial, tick, detector>>

SpecMissing == Init /\ [][MissingNext]_vars

\* ------------------------------------------------ overlapping invocations ---
\* The row of lims_cache_cursor after sbPatch of an invocation that read
\* cursor: PATCH ...?council_period_id=eq.26 writes position and completed,
\* computed from the row read, into whatever row the table holds now.
PatchedRows(rows, cursor) ==
    IF rows = <<>> THEN <<>>
    ELSE <<[rows[1] EXCEPT !.position = BatchEnd(cursor),
                           !.completed = Completed(BatchEnd(cursor), cursor)]>>

\* The upstream of these runs holds bills only.
OverlapCatalogs == 0..MaxBills

\* An invocation of the scheduled trigger without reset starts while another
\* may be running: it passes the authorization and reads the cursor row.  On
\* a completed cursor it returns at once.
Begin(i) ==
    /\ inflight[i].pc = "idle"
    /\ inflight' =
          IF lims_cache_cursor # <<>> /\ CursorCompleted(lims_cache_cursor[1])
          THEN inflight
          ELSE [inflight EXCEPT ![i] = [pc |-> "read", rows |-> lims_cache_cursor]]
    /\ UNCHANGED <<lims_cache_cursor, lims_bill_cache, req, res, log, batches,
                   attempted, caller, trial, tick, detector>>

\* An invocation that read no cursor row collects the bill numbers and
\* upserts the cursor row, over the row another invocation wrote meanwhile.
FinishBootstrap(i) ==
    /\ inflight[i].pc = "read"
    /\ inflight[i].rows = <<>>
    /\ \E cat \in OverlapCatalogs :
         \E c \in {CollectBillNumbers(cat, 0)} :
           lims_cache_cursor' = <<InitialCursor(c.acc.allBillNumbers)>>
    /\ attempted' = {}
    /\ batches' = 0
    /\ inflight' = [inflight EXCEPT ![i] = Idle]
    /\ UNCHANGED <<lims_bill_cache, req, res, log, caller, trial, tick, detector>>

\* An invocation that read a cursor row processes the slice of that row and
\* patches the row the table holds now.
FinishBatch(i) ==
    /\ inflight[i].pc = "read"
    /\ inflight[i].rows # <<>>
    /\ LET cursor == inflight[i].rows[1]
           batch  == Batch(cursor)
       IN  \E oc \in [1..Len(batch) -> {Outcome("ok", "v1")}] :
             \E st \in {ProcessBatch(batch, 1, oc,
                           [NoStats EXCEPT !.cache = lims_bill_cache,
                                           !.now = tick])} :
               /\ lims_bill_cache' = st.cache
               /\ attempted' = attempted \cup
                     {st.fetched[k] : k \in 1..Len(st.fetched)}
               /\ lims_cache_cursor' = PatchedRows(lims_cache_cursor, cursor)
    /\ batches' = batches + 1
    /\ inflight' = [inflight EXCEPT ![i] = Idle]
    /\ UNCHANGED <<req, res, log, caller, trial, tick, detector>>

OverlapNext ==
    \E i \in Invocations :
        \/ Begin(i)
        \/ FinishBootstrap(i)
        \/ FinishBatch(i)

SpecOverlap == Init /\ [][OverlapNext]_vars

\* ------------------------------------------ an invocation that is killed ---
\* The platform ends the invocation (time limit, crash) inside the loop of the
\* batch step, after the detail fetch of k bill numbers was issued: the rows
\* upserted so far stay, sbPatch is never reached, no response is sent.
BatchCrash(r) ==
    /\ Authorized(r)
    /\ \E del \in DeleteOutcomes(r) \ {"throws"} :
         LET rows == AfterReset(r, del)
         IN  /\ rows # <<>>
             /\ ~CursorCompleted(rows[1])
             /\ \E k \in 0..Len(Batch(rows[1])) :
                  \E oc \in [1..k -> Outcomes] :
                  \E st \in {ProcessBatch(Slice(Batch(rows[1]), 0, k), 1, oc,
                                [NoStats EXCEPT
                                    !.cache = CacheAfterReset(r, del),
                                    !.now = tick])} :
                    /\ lims_bill_cache' = st.cache
                    /\ attempted' = attempted \cup
                          {st.fetched[i] : i \in 1..Len(st.fetched)}
                    /\ log' = [NoLog EXCEPT
                                  !.path = "crash",
                                  !.error = "killed",
                                  !.loaded = rows,
                                  !.fetched = st.fetched,
                                  !.upserts = st.upserts,
                                  !.deletes = Deletes(del),
                                  !.reads = 1]
             /\ lims_cache_cursor' = rows
    /\ req' = r
    /\ res' = [code |-> 504]
    /\ UNCHANGED batches

\* Invocations of the scheduled trigger, any of which the platform may kill.
CrashNext ==
    \E r \in CronRequests :
        \/ ResetThrows(r) /\ UNCHANGED <<caller, inflight, trial, tick, detector>>
        \/ CursorReadFails(r) /\ UNCHANGED <<caller, inflight, trial, tick, detector>>
        \/ Bootstrap(r) /\ UNCHANGED <<caller, inflight, trial, tick, detector>>
        \/ Complete(r) /\ UNCHANGED <<caller, inflight, trial, tick, detector>>
        \/ BatchStep(r) /\ UNCHANGED <<caller, inflight, trial, tick, detector>>
        \/ BatchCrash(r) /\ UNCHANGED <<caller, inflight, trial, tick, detector>>

SpecCrash == Init /\ [][CrashNext]_vars

\* ---------------------------------------- pagination over any answers ---
\* The loop over CATEGORY_IDS when the search of the k-th category matches
\* lists[k], no call failing.
RECURSIVE CollectLists(_, _, _)
CollectLists(lists, k, st) ==
    IF k > Len(CATEGORY_IDS) THEN st
    ELSE CollectLists(lists, k + 1,
             CollectCategory(lists[k], 0, [st EXCEPT !.categoryId = CATEGORY_IDS[k]], 0))

\* Sequences over S of length at most n.
SeqsUpTo(S, n) == UNION {[1..k -> S] : k \in 0..n}

\* Records a search can match: a legislationNumber of 1..MaxBills or none,
\* in any order and any number of times.
SearchRecords(categoryId) ==
    {[categoryId |-> categoryId, legislationNumber |-> b] : b \in {Null} \cup 1..MaxBills}

\* Matches of the two categories: more than one page of the first.
SearchLists ==
    {<<l1, l2>> : l1 \in SeqsUpTo(SearchRecords(CATEGORY_IDS[1]), PAGE_SIZE + 1),
                  l2 \in SeqsUpTo(SearchRecords(CATEGORY_IDS[2]), 2)}

\* The bootstrap collects the bill numbers of some matches.
TryCollect ==
    /\ trial.op = "none"
    /\ \E lists \in SearchLists :
         trial' = [op |-> "collect", lists |-> lists,
                   allBillNumbers |->
                       CollectLists(lists, 1, NoCollected).acc.allBillNumbers]
    /\ UNCHANGED <<lims_cache_cursor, lims_bill_cache, req, res, log, batches,
                   attempted, caller, inflight, tick, detector>>

SpecCollect == Init /\ [][TryCollect]_vars

\* Matches of the two categories for the page loop: up to two full pages and
\* one row of the first category, up to one full page of the second.
PageLists ==
    {<<l1, l2>> : l1 \in SeqsUpTo({[categoryId |-> CATEGORY_IDS[1], legislationNumber |-> b] :
                                       b \in {Null, 1}}, 2 * PAGE_SIZE + 1),
                  l2 \in SeqsUpTo({[categoryId |-> CATEGORY_IDS[2], legislationNumber |-> b] :
                                       b \in {2}}, PAGE_SIZE)}

\* The page loop runs over some matches; one answer may be no array.
TryPages ==
    /\ trial.op = "none"
    /\ \E lists \in PageLists, notArrayAt \in 0..3 :
         \E st \in {CollectLists(lists, 1, [NoCollected EXCEPT !.notArrayAt = notArrayAt])} :
           /\ notArrayAt <= st.calls
           /\ trial' = [op |-> "pages", lists |-> lists, notArrayAt |-> notArrayAt,
                        requests |-> st.requests, calls |-> st.calls,
                        allBillNumbers |-> st.acc.allBillNumbers]
    /\ UNCHANGED <<lims_cache_cursor, lims_bill_cache, req, res, log, batches,
                   attempted, caller, inflight, tick, detector>>

SpecPages == Init /\ [][TryPages]_vars

\* ------------------------------------- hearing parser of check-hearings ---
\* Dates are numbers yyyymmdd.  A raw value of the details is absent, a text
\* new Date() cannot parse, or the text of a date.
NaN == -1

Raw(kind, value) == [kind |-> kind, value |-> value]

Dates == {19000101, 20240101, 20250301, 20250601}

RawValues == {Raw("absent", 0), Raw("garbage", 0)} \cup {Raw("date", d) : d \in Dates}

\* new Date(raw)
ParseDate(raw) == IF raw.kind = "date" THEN raw.value ELSE NaN

\* d.getFullYear()
Year(d) == d \div 10000

\* for (const f of [...]) if (details[f]) { d = new Date(details[f]);
\*     if (!isNaN(d)) candidates.push({ date: d, type }) }
RECURSIVE PushDates(_, _, _)
PushDates(raws, type, candidates) ==
    IF raws = <<>> THEN candidates
    ELSE LET raw == Head(raws)
             d   == ParseDate(raw)
         IN  IF raw.kind # "absent" /\ d # NaN
             THEN PushDates(Tail(raws), type, Append(candidates, [date |-> d, type |-> type]))
             ELSE PushDates(Tail(raws), type, candidates)

\* Pattern B: the events whose action names a hearing keyword.
RECURSIVE HearingEvents(_)
HearingEvents(history) ==
    IF history = <<>> THEN <<>>
    ELSE IF Head(history).keyword
         THEN <<Head(history).rawDate>> \o HearingEvents(Tail(history))
         ELSE HearingEvents(Tail(history))

\* candidates.sort((a, b) => a.date - b.date): c goes behind the entries
\* that are not later than it.
RECURSIVE InsertByDate(_, _)
InsertByDate(c, sorted) ==
    IF sorted = <<>> THEN <<c>>
    ELSE IF Head(sorted).date <= c.date
         THEN <<Head(sorted)>> \o InsertByDate(c, Tail(sorted))
         ELSE <<c>> \o sorted

RECURSIVE SortByDate(_)
SortByDate(candidates) ==
    IF candidates = <<>> THEN <<>>
    ELSE InsertByDate(candidates[Len(candidates)],
                      SortByDate(SubSeq(candidates, 1, Len(candidates) - 1)))

\* All candidates of the three patterns, in the order they are pushed.
HearingCandidates(details) ==
    PushDates(details.referrals, "Committee Hearing",
        PushDates(HearingEvents(details.history), "History",
            PushDates(details.flat, "Hearing", <<>>)))

\* extractNextHearing of check-hearings
extractNextHearing(details, now) ==
    LET candidates == HearingCandidates(details)
    IN  IF candidates = <<>> THEN [date |-> Null, type |-> "null"]
        ELSE LET sorted == SortByDate(candidates)
                 future == SelectSeq(sorted, LAMBDA c : c.date > now)
             IN  IF Len(future) > 0 THEN future[1] ELSE sorted[Len(sorted)]

\* Details of a bill: at most one flat date field, two events of the
\* history, one committee referral.
HearingDetails ==
    [flat : SeqsUpTo(RawValues, 1),
     history : SeqsUpTo([keyword : BOOLEAN, rawDate : RawValues], 2),
     referrals : SeqsUpTo(RawValues, 1)]

\* Times a hearing check runs at.
Nows == {20250101, 20260101}

\* The hearing parser is applied to the details of a bill.
TryHearing ==
    /\ trial.op = "none"
    /\ \E details \in HearingDetails, now \in Nows :
         trial' = [op |-> "hearing", details |-> details, now |-> now,
                   hearing |-> extractNextHearing(details, now)]
    /\ UNCHANGED <<lims_cache_cursor, lims_bill_cache, req, res, log, batches,
                   attempted, caller, inflight, tick, detector>>

SpecHearing == Init /\ [][TryHearing]_vars

\* ------------------------------------------- the batch step, run again ---
\* What one batch step leaves in the store, from the cursor row it read and
\* the cache table it found, under the answers oc at the time now.
BatchStepResult(cursor, table, oc, now) ==
    [cursor |-> SavedCursor(cursor),
     cache  |-> ProcessBatch(Batch(cursor), 1, oc,
                             [NoStats EXCEPT !.cache = table, !.now = now]).cache]

\* Cursor rows of a build under way: the candidate list 1..n, a position
\* that batch steps reach.
TrialCursors ==
    {[InitialCursor([i \in 1..n |-> i]) EXCEPT !.position = p] :
        n \in 1..MaxBills, p \in {q \in 0..(MaxBills - 1) : q % BATCH_SIZE = 0}}

\* The upstream may hold newer details than an earlier build cached.
TrialOutcomes == Outcomes \cup {Outcome("ok", "v2")}

\* Rows an earlier build left in the cache table.
EarlierRows(cursor) ==
    {CacheRow(cursor.bill_numbers[i], "v1", 0) : i \in 1..Len(cursor.bill_numbers)}

\* A batch step runs at time 1; the invocation is retried at time 2 and reads
\* the cursor row the first run read, the upstream and the store answering
\* as they did.
TryBatchTwice ==
    /\ \E cursor \in {c \in TrialCursors : c.position < c.total} :
         \E table \in SUBSET EarlierRows(cursor),
            oc \in [1..Len(Batch(cursor)) -> TrialOutcomes] :
            \E once \in {BatchStepResult(cursor, table, oc, 1)} :
              trial' = [op |-> "batch_twice", cursor |-> cursor, table |-> table,
                        once |-> once,
                        twice |-> BatchStepResult(cursor, once.cache, oc, 2)]
    /\ UNCHANGED <<lims_cache_cursor, lims_bill_cache, req, res, log, batches,
                   attempted, caller, inflight, tick, detector>>

SpecRetry == Init /\ [][TryBatchTwice]_vars

\* ----------------------------------------- proxy and client of the LIMS ---
\* What the upstream does with a request: status 0 when the connection
\* fails, else the HTTP status and the kind of body.  details: the JSON of a
\* record.  problem: some other JSON, without an error member.  error_field:
\* JSON with an error member.  not_json: a body that is not JSON.
UpstreamAnswers ==
    {[status |-> 0, body |-> "none"]}
    \cup [status : {200}, body : {"details", "error_field", "not_json"}]
    \cup [status : {404, 500}, body : {"problem", "error_field", "not_json"}]

\* Faulty variant of hello: the status of the upstream is not looked at, as
\* in the handler of proxy.js.
helloNoOkTest(answer) ==
    IF answer.status = 0 \/ answer.body = "not_json"
    THEN [status |-> 500, body |-> "error_field"]
    ELSE [status |-> 200, body |-> answer.body]

\* The handler of /api/hello: what it answers to the client.
hello(answer) ==
    IF answer.status = 0 THEN [status |-> 500, body |-> "error_field"]
    ELSE IF answer.status # 200 THEN [status |-> answer.status, body |-> "error_field"]
    ELSE IF answer.body = "not_json" THEN [status |-> 500, body |-> "error_field"]
    ELSE [status |-> 200, body |-> answer.body]

\* if (!r.ok) throw; data = await r.json(); if (data.error) throw; return data
limsGet(response) ==
    IF response.status # 200 \/ response.body = "error_field"
    THEN [threw |-> TRUE, data |-> "none"]
    ELSE [threw |-> FALSE, data |-> response.body]

limsPost(response) ==
    IF response.status # 200 \/ response.body = "error_field"
    THEN [threw |-> TRUE, data |-> "none"]
    ELSE [threw |-> FALSE, data |-> response.body]

\* The client of check-hearings.
fetchLegislationDetails(response) ==
    IF response.status # 200 \/ response.body = "error_field"
    THEN [threw |-> TRUE, data |-> "none"]
    ELSE [threw |-> FALSE, data |-> response.body]

\* What the batch loop gets for a bill number from limsGet through the proxy.
DetailOutcome(answer) ==
    LET got == limsGet(hello(answer))
    IN  IF got.threw THEN Outcome("fetch_fail", "none") ELSE Outcome("ok", got.data)

\* A batch step whose detail fetches get the answers of the upstream through
\* proxy and client, and what each client makes of the first answer.
TryClient ==
    /\ trial.op = "none"
    /\ \E cursor \in {c \in TrialCursors : c.position < c.total} :
         \E answers \in [1..Len(Batch(cursor)) -> UpstreamAnswers] :
            trial' = [op |-> "client", cursor |-> cursor, answers |-> answers,
                      got |-> [i \in 1..Len(Batch(cursor)) |-> limsGet(hello(answers[i]))],
                      page |-> limsPost(hello(answers[1])),
                      fetched |-> fetchLegislationDetails(hello(answers[1])),
                      cache |-> BatchStepResult(cursor, {},
                                    [i \in 1..Len(Batch(cursor)) |-> DetailOutcome(answers[i])],
                                    1).cache]
    /\ UNCHANGED <<lims_cache_cursor, lims_bill_cache, req, res, log, batches,
                   attempted, caller, inflight, tick, detector>>

SpecClient == Init /\ [][TryClient]_vars

\* ------------------------------------ check-hearings, batches in parallel ---
\* Details the upstream answers a detail fetch with: no hearing at all, a
\* hearing that has passed, a hearing to come.
DetailAnswers ==
    {[flat |-> flat, history |-> <<>>, referrals |-> <<>>] :
        flat \in {<<>>, <<Raw("date", 20240101)>>, <<Raw("date", 20250301)>>}}

\* const results = { checked: 0, updated: 0, withUpcoming: 0, errors: [] }
NoResults == [checked |-> 0, updated |-> 0, withUpcoming |-> 0, errors |-> <<>>]

\* Faulty variant of ShouldPatch: only an item with a hearing is patched.
ShouldPatchWhenFound(hearing) == hearing.date # Null

\* The PATCH of tracked_items follows extractNextHearing under no condition.
ShouldPatch(hearing) == TRUE

\* const isPast = hearing.date && hearing.date <= new Date()
isPast(hearing, now) == hearing.date # Null /\ hearing.date <= now

\* The requests of check-hearings, which reads no reset flag.
HearingRequests == {r \in Requests : ~r.reset}

\* if (!isVercelCron && !isManual) return res.status(401)
HearingsUnauthorized(r) ==
    /\ run.pc = "done"
    /\ ~Authorized(r)
    /\ run' = [handler |-> "hearings", pc |-> "done", code |-> 401]
    /\ UNCHANGED <<tracked_items, bill_status_history, keyword_alert_log>>

\* trackedItems = await supabaseRequest('/tracked_items?...') throws:
\* return res.status(500)
HearingsLoadFails(r) ==
    /\ run.pc = "done"
    /\ Authorized(r)
    /\ run' = [handler |-> "hearings", pc |-> "done", code |-> 500]
    /\ UNCHANGED <<tracked_items, bill_status_history, keyword_alert_log>>

\* What an invocation holds once the n rows that are no manual entries are
\* loaded (the application adds and removes tracked items between the
\* invocations; the query returns the rows 1..n).
Loaded(n) ==
    [handler |-> "hearings", pc |-> "launch", code |-> 0,
     now |-> 20250101,
     items |-> [k \in 1..n |-> k],
     i |-> 0, inFlight |-> {}, fetched |-> {}, patches |-> {},
     results |-> NoResults, response |-> [checked |-> 0], activityLogged |-> FALSE]

\* if (!trackedItems || trackedItems.length === 0)
\*     return res.status(200).json({ message: '...', checked: 0 })
HearingsEmpty(r) ==
    /\ run.pc = "done"
    /\ Authorized(r)
    /\ run' = [Loaded(0) EXCEPT !.pc = "done", !.code = 200]
    /\ UNCHANGED <<tracked_items, bill_status_history, keyword_alert_log>>

\* The handler up to its loop: the tracked items are loaded.
HearingsBegin(r) ==
    /\ run.pc = "done"
    /\ Authorized(r)
    /\ \E n \in 1..MaxTracked : run' = Loaded(n)
    /\ UNCHANGED <<tracked_items, bill_status_history, keyword_alert_log>>

\* const batch = trackedItems.slice(i, i + BATCH_SIZE);
\* await Promise.all(batch.map(async (item) => { ... })): every callback
\* runs up to its first await, the detail fetch of its item.
HearingsLaunch ==
    /\ run.handler = "hearings" /\ run.pc = "launch"
    /\ run' = [run EXCEPT
                 !.pc = "await",
                 !.inFlight = Range(Slice(run.items, run.i,
                                          run.i + HEARING_BATCH_SIZE))]
    /\ UNCHANGED <<tracked_items, bill_status_history, keyword_alert_log>>

\* Where the loop stands once the callback of one more item has ended.
AfterCallback(rn, id) ==
    LET left == rn.inFlight \ {id}
    IN  [rn EXCEPT
           !.inFlight = left,
           !.pc = IF left # {} THEN "await"
                  ELSE IF rn.i + HEARING_BATCH_SIZE < Len(rn.items)
                       THEN "launch" ELSE "log",
           !.i = IF left = {} THEN rn.i + HEARING_BATCH_SIZE ELSE rn.i]

\* Faulty variant of CallbackFailed: the failed item is not counted as
\* checked.
CallbackFailedUncounted(rn, id) ==
    AfterCallback([rn EXCEPT !.results.errors = Append(@, id)], id)

\* catch (err) { results.errors.push({ id, error }); results.checked++ }
CallbackFailed(rn, id) ==
    AfterCallback([rn EXCEPT !.results.errors = Append(@, id),
                             !.results.checked = @ + 1], id)

\* The detail fetch of item id throws.
HearingsFetchFails(id) ==
    /\ run.handler = "hearings" /\ run.pc = "await"
    /\ id \in run.inFlight
    /\ run' = CallbackFailed(run, id)
    /\ UNCHANGED <<tracked_items, bill_status_history, keyword_alert_log>>

\* The detail fetch of item id answers: the rest of the callback, up to the
\* answer of the store to the PATCH.
HearingsFetched(id) ==
    /\ run.handler = "hearings" /\ run.pc = "await"
    /\ id \in run.inFlight
    /\ \E details \in DetailAnswers, patchOk \in BOOLEAN :
         LET hearing == extractNextHearing(details, run.now)
             got     == [run EXCEPT !.fetched = @ \cup {[id |-> id, details |-> details]}]
             patch   == [id |-> id, next_hearing_date |-> hearing.date,
                         hearing_type |-> hearing.type, ok |-> patchOk,
                         changes |-> tracked_items[id].next_hearing_date # hearing.date]
             sent    == [got EXCEPT !.patches = @ \cup {patch}]
         IN  IF ~ShouldPatch(hearing)
             THEN /\ run' = AfterCallback([got EXCEPT !.results.checked = @ + 1], id)
                  /\ UNCHANGED tracked_items
             ELSE IF patchOk
             THEN /\ tracked_items' =
                       [tracked_items EXCEPT ![id].next_hearing_date = hearing.date]
                  /\ run' = AfterCallback(
                       [sent EXCEPT
                          !.results.checked = @ + 1,
                          !.results.updated = @ + 1,
                          !.results.withUpcoming =
                              IF hearing.date # Null /\ ~isPast(hearing, run.now)
                              THEN @ + 1 ELSE @], id)
             ELSE /\ run' = CallbackFailed(sent, id)
                  /\ UNCHANGED tracked_items
    /\ UNCHANGED <<bill_status_history, keyword_alert_log>>

\* Faulty variant of FinishCode: a summary that could not be written fails
\* the invocation.
FinishCodeStrict(logOk) == IF logOk THEN 200 ELSE 500

\* try { await supabaseRequest('/activity_log', 'POST', ...) } catch (err)
\* { console.warn(...) }; return res.status(200).json(results)
FinishCode(logOk) == 200

\* The activity_log row is written, or its failure is logged and ignored;
\* return res.status(200).json(results)
HearingsFinish ==
    /\ run.handler = "hearings" /\ run.pc = "log"
    /\ \E logOk \in BOOLEAN :
         run' = [run EXCEPT !.pc = "done", !.code = FinishCode(logOk),
                            !.activityLogged = logOk,
                            !.response = IF FinishCode(logOk) = 200
                                         THEN run.results ELSE @]
    /\ UNCHANGED <<tracked_items, bill_status_history, keyword_alert_log>>

HearingsNext ==
    /\ \/ \E r \in HearingRequests : HearingsUnauthorized(r)
       \/ \E r \in HearingRequests : HearingsLoadFails(r)
       \/ \E r \in HearingRequests : HearingsEmpty(r)
       \/ \E r \in HearingRequests : HearingsBegin(r)
       \/ HearingsLaunch
       \/ \E id \in TrackedIds : HearingsFetchFails(id)
       \/ \E id \in TrackedIds : HearingsFetched(id)
       \/ HearingsFinish
    /\ UNCHANGED <<lims_cache_cursor, lims_bill_cache, req, res, log, batches,
                   attempted, caller, inflight, trial, tick>>

SpecHearings == Init /\ [][HearingsNext]_vars

\* ------------------------- check-hearings with status changes and keywords ---
\* The statuses a detail record or a tracked row carries; "" is none.
Statuses == {"", "Introduced", "Committee Referral"}

\* The tracked bills: trackedItems.filter(i => !i.is_manual_entry && i.bill_number)
RECURSIVE TrackedBills(_, _)
TrackedBills(table, i) ==
    IF i > MaxTracked THEN <<>>
    ELSE IF table[i].bill_number # Null
         THEN <<i>> \o TrackedBills(table, i + 1)
         ELSE TrackedBills(table, i + 1)

\* Faulty variant of StatusChanged: any difference counts as a change.
StatusChangedAny(oldStatus, newStatus) == newStatus # oldStatus

\* const statusChanged = newStatus && oldStatus && newStatus !== oldStatus
StatusChanged(oldStatus, newStatus) ==
    newStatus # "" /\ oldStatus # "" /\ newStatus # oldStatus

\* What the upstream and the store answer for one tracked bill: the detail
\* fetch throws, or it returns a status and the store accepts both writes,
\* rejects the insert of the event, or rejects the patch of the row.
BillAnswers ==
    {[fetch |-> "fail", status |-> "", store |-> "ok"]} \cup
    [fetch : {"ok"}, status : Statuses, store : {"ok", "insert_fail", "patch_fail"}]

\* Answers under which nothing of a tracked bill changes.
QuietAnswers == {[fetch |-> "ok", status |-> "", store |-> "ok"]}

\* for (const item of trackedBills) { try { ... } catch (err) { ... } }
RECURSIVE CheckBills(_, _, _)
CheckBills(bills, answers, st) ==
    IF bills = <<>> THEN st
    ELSE LET id        == Head(bills)
             item      == st.table[id]
             a         == answers[id]
             failed    == [st EXCEPT !.errors = Append(@, id)]
             changed   == StatusChanged(item.status, a.status)
             event     == [item_id |-> id, old_status |-> item.status,
                           new_status |-> a.status]
             recorded  == IF changed
                          THEN [st EXCEPT
                                  !.history = Append(@, event),
                                  !.alerts = IF item.action_status = "action_needed"
                                             THEN Append(@, id) ELSE @,
                                  !.statusChanges = Append(@, event)]
                          ELSE st
             patched   == [recorded EXCEPT
                             !.table[id].status =
                                 IF a.status # "" THEN a.status ELSE item.status,
                             !.table[id].next_hearing_date = Null,
                             !.checked = @ + 1]
         IN  CheckBills(Tail(bills), answers,
               IF a.fetch = "fail" THEN failed
               ELSE IF changed /\ a.store = "insert_fail" THEN failed
               ELSE IF a.store = "patch_fail"
                    THEN [recorded EXCEPT !.errors = Append(@, id)]
               ELSE patched)

\* for (const bill of searchResults): a result with a number that is neither
\* a tracked id nor in the ledger as loaded is pushed to newMatches, then
\* inserted into the ledger; an insert that throws ends the results of the
\* keyword (the catch of the keyword).
RECURSIVE ScanResults(_, _, _, _, _)
ScanResults(results, keyword, alreadyAlerted, failAt, st) ==
    IF results = <<>> THEN st
    ELSE LET billNum == Head(results)
             key     == [bill_number |-> billNum, keyword |-> keyword]
         IN  IF billNum = Null \/ billNum \in TrackedIds \/ key \in alreadyAlerted
             THEN ScanResults(Tail(results), keyword, alreadyAlerted, failAt, st)
             ELSE LET pushed == [st EXCEPT !.matches = Append(@, key),
                                           !.inserts = @ + 1]
                  IN  IF pushed.inserts = failAt
                      THEN pushed
                      ELSE ScanResults(Tail(results), keyword, alreadyAlerted, failAt,
                             [pushed EXCEPT !.ledger = @ \cup {key}])

\* for (const keyword of keywords) { try { searchResults = await limsPost(...)
RECURSIVE ScanKeywords(_, _, _, _, _)
ScanKeywords(keywords, searches, alreadyAlerted, failAt, st) ==
    IF keywords = <<>> THEN st
    ELSE LET keyword == Head(keywords)
             answer  == searches[keyword]
         IN  ScanKeywords(Tail(keywords), searches, alreadyAlerted, failAt,
               IF answer.ok
               THEN ScanResults(answer.results, keyword, alreadyAlerted, failAt, st)
               ELSE st)

\* The tracked keywords, and what a search of one may answer: bill 1 is
\* tracked, bills 8 and 9 are not, Null is a record without a number.
Keywords == <<"zoning", "clinic">>

SearchAnswers ==
    {[ok |-> FALSE, results |-> <<>>]} \cup
    [ok : {TRUE}, results : SeqsUpTo({8, 9}, 2) \cup {<<Null, 8>>, <<1, 9>>}]

\* if (!isVercelCron && !isManual) return res.status(401)
DetectorUnauthorized(r) ==
    /\ run.pc = "done"
    /\ ~Authorized(r)
    /\ run' = [handler |-> "detector", pc |-> "done", code |-> 401]
    /\ UNCHANGED <<tracked_items, bill_status_history, keyword_alert_log>>

\* sbGet of tracked_items or of tracked_keywords throws, outside any try.
DetectorLoadFails(r) ==
    /\ run.pc = "done"
    /\ Authorized(r)
    /\ run' = [handler |-> "detector", pc |-> "done", code |-> 500]
    /\ UNCHANGED <<tracked_items, bill_status_history, keyword_alert_log>>

\* One invocation that loads its tables: the tracked bills are checked one
\* after the other, the alert of the status changes is mailed, the keywords
\* are searched and the new matches are mailed.  A sendEmail that throws
\* ends the invocation, nothing catches it.
DetectorRun(r, billAnswers, keywords) ==
    /\ run.pc = "done"
    /\ Authorized(r)
    /\ Len(bill_status_history) < MaxEvents
    /\ \E answers \in [{i \in TrackedIds : tracked_items[i].bill_number # Null}
                        -> billAnswers],
          alertMailOk \in BOOLEAN,
          searches \in [Range(keywords) -> SearchAnswers],
          failAt \in IF keywords = <<>> THEN {0} ELSE 0..2,
          matchMailOk \in IF keywords = <<>> THEN {TRUE} ELSE BOOLEAN :
         \E st \in {CheckBills(TrackedBills(tracked_items, 1), answers,
                      [table |-> tracked_items, history |-> bill_status_history,
                       statusChanges |-> <<>>, alerts |-> <<>>,
                       checked |-> 0, errors |-> <<>>])} :
         \E kw \in {IF keywords = <<>> \/ (st.alerts # <<>> /\ ~alertMailOk)
                    THEN [ledger |-> keyword_alert_log, matches |-> <<>>, inserts |-> 0]
                    ELSE ScanKeywords(keywords, searches, keyword_alert_log, failAt,
                           [ledger |-> keyword_alert_log, matches |-> <<>>,
                            inserts |-> 0])} :
           /\ st.alerts = <<>> => alertMailOk
           /\ kw.matches = <<>> => matchMailOk
           /\ kw.inserts < failAt => failAt = 0
           /\ tracked_items' = st.table
           /\ bill_status_history' = st.history
           /\ keyword_alert_log' = kw.ledger
           /\ run' = [handler |-> "detector", pc |-> "done",
                      code |-> IF alertMailOk /\ matchMailOk THEN 200 ELSE 500,
                      stored |-> tracked_items,
                      answers |-> answers,
                      eventsBefore |-> Len(bill_status_history),
                      alerts |-> st.alerts,
                      results |-> [checked |-> st.checked,
                                   statusChanges |-> st.statusChanges,
                                   newKeywordMatches |-> kw.matches,
                                   errors |-> st.errors],
                      alreadyAlerted |-> keyword_alert_log,
                      notified |-> Range(kw.matches)]

\* Invocations while no keyword is tracked.
StatusNext ==
    /\ \E r \in HearingRequests :
        \/ DetectorUnauthorized(r)
        \/ DetectorLoadFails(r)
        \/ DetectorRun(r, BillAnswers, <<>>)
    /\ UNCHANGED <<lims_cache_cursor, lims_bill_cache, req, res, log, batches,
                   attempted, caller, inflight, trial, tick>>

SpecStatus == Init /\ [][StatusNext]_vars

\* Invocations while the upstream reports no status for the tracked bills.
KeywordsNext ==
    /\ \E r \in HearingRequests :
        \/ DetectorUnauthorized(r)
        \/ DetectorLoadFails(r)
        \/ DetectorRun(r, QuietAnswers, Keywords)
    /\ UNCHANGED <<lims_cache_cursor, lims_bill_cache, req, res, log, batches,
                   attempted, caller, inflight, trial, tick>>

SpecKeywords == Init /\ [][KeywordsNext]_vars

\* ------------------------------------------------------------- properties ---
HasCursor == lims_cache_cursor # <<>>
Cursor == lims_cache_cursor[1]

\* ceil(n / b)
Ceil(n, b) == (n + b - 1) \div b

\* The last invocation was a batch step that saved the cursor.
BatchSaved == log.path = "batch" /\ log.cursorWrites = 1

\* The last invocation was a bootstrap that wrote the cursor row.
BootstrapSaved == log.path = "bootstrap" /\ log.cursorWrites = 1

\* C1: after every batch step that saved the cursor, the saved position is
\* min(old position + BATCH_SIZE, total) and the saved completed flag is
\* (position >= total), whatever happened to the bill numbers of the slice.
C1_BatchStepAdvance ==
    BatchSaved =>
        /\ HasCursor
        /\ Cursor.position =
               Min(log.loaded[1].position + BATCH_SIZE, log.loaded[1].total)
        /\ Cursor.completed = (Cursor.position >= Cursor.total)

\* A batch step with a failure in its slice saved a position that the total,
\* not the batch size, decided.
C1_Witness ==
    /\ BatchSaved
    /\ res.errors >= 1
    /\ Cursor.position = Cursor.total
    /\ Cursor.position < log.loaded[1].position + BATCH_SIZE

\* C2: right after a bootstrap that wrote the cursor row, total is the length
\* of the candidate list, position is 0 and completed is false.
C2_BootstrapCursor ==
    BootstrapSaved =>
        /\ HasCursor
        /\ Cursor.total = Len(Cursor.bill_numbers)
        /\ Cursor.position = 0
        /\ Cursor.completed = FALSE
        /\ res.total = Cursor.total

\* A bootstrap wrote the cursor of an empty candidate list.
C2_Witness == BootstrapSaved /\ Cursor.total = 0

\* C3: an invocation without the reset flag, whatever its outcome, never
\* removes the cursor row and never lowers its position.
C3_PositionMonotonic ==
    [][(HasCursor /\ ~req'.reset) =>
          /\ lims_cache_cursor' # <<>>
          /\ lims_cache_cursor'[1].position >= Cursor.position]_vars

\* A second batch step without reset moved the position further.
C3_Witness ==
    /\ BatchSaved
    /\ ~req.reset
    /\ log.loaded[1].position > 0
    /\ Cursor.position > log.loaded[1].position

\* C4 as stated: 0 <= position <= total and completed iff position >= total,
\* in every state of the cursor row.
C4_Original ==
    HasCursor =>
        /\ 0 <= Cursor.position
        /\ Cursor.position <= Cursor.total
        /\ Cursor.completed <=> (Cursor.position >= Cursor.total)

\* C4 as amended: 0 <= position <= total; completed implies position >= total;
\* position >= total implies completed unless the candidate list is empty,
\* whose cursor stays at completed = false until a batch step saves it.
C4_CursorInvariant ==
    HasCursor =>
        /\ 0 <= Cursor.position
        /\ Cursor.position <= Cursor.total
        /\ Cursor.total = Len(Cursor.bill_numbers)
        /\ Cursor.completed => (Cursor.position >= Cursor.total)
        /\ (Cursor.position >= Cursor.total /\ Cursor.total > 0) => Cursor.completed

\* A batch step brought the cursor of a non-empty list to its end.
C4_Witness ==
    /\ BatchSaved
    /\ Cursor.total > 0
    /\ Cursor.position = Cursor.total
    /\ Cursor.completed

\* C5: once the cursor is completed, an invocation without the reset flag
\* fetches no detail, upserts no record and leaves cursor and cache as they
\* are; when it is authorized and reads the cursor, it answers 'complete'.
C5_CompleteShortCircuit ==
    [][(HasCursor /\ Cursor.completed /\ ~req'.reset) =>
          /\ lims_cache_cursor' = lims_cache_cursor
          /\ lims_bill_cache' = lims_bill_cache
          /\ log'.fetched = <<>>
          /\ log'.upserts = <<>>
          /\ log'.cursorWrites = 0
          /\ (Authorized(req') /\ log'.error = "none") =>
                 (res'.code = 200 /\ ResStatus(res') = "complete")]_vars

\* An invocation without reset found the completed cursor.
C5_Witness ==
    /\ log.path = "complete"
    /\ ~req.reset
    /\ ResStatus(res) = "complete"

C7_Original ==
    BatchSaved =>
        /\ batches <= Ceil(res.total, BATCH_SIZE)
        /\ res.position = Min(batches * BATCH_SIZE, res.total)
        /\ ResStatus(res) = IF batches = Ceil(res.total, BATCH_SIZE)
                            THEN "complete" ELSE "in_progress"

\* C7 as amended: the same for N >= 1; for N = 0 one batch step is needed,
\* which reports 'complete' with position 0.
C7_BatchCount ==
    BatchSaved =>
        LET needed == IF res.total = 0 THEN 1 ELSE Ceil(res.total, BATCH_SIZE)
        IN  /\ batches <= needed
            /\ res.position = Min(batches * BATCH_SIZE, res.total)
            /\ res.position = Cursor.position
            /\ ResStatus(res) = IF batches = needed THEN "complete" ELSE "in_progress"

\* The third batch step reported 'complete' at a position that is no multiple
\* of the batch size (the shape of 45 bill numbers in batches of 20).
C7_Witness ==
    /\ BatchSaved
    /\ batches = 3
    /\ ResStatus(res) = "complete"
    /\ res.position = res.total
    /\ res.position = 2 * BATCH_SIZE + 1

\* C10: a batch step fetches details for every bill number of its slice,
\* once each and in slice order, whatever fails on the way; when it saved the
\* cursor, each bill number is counted as upserted or as an error and the
\* position moved past the whole slice.
C10_FailureDoesNotAbort ==
    log.path = "batch" =>
        /\ log.fetched = Batch(log.loaded[1])
        /\ BatchSaved =>
              /\ res.upserted + res.errors = Len(log.fetched)
              /\ res.upserted = Len(log.upserts)
              /\ Cursor.position = log.loaded[1].position + Len(log.fetched)

\* The first bill number of a slice failed and the second was still upserted.
C10_Witness ==
    /\ BatchSaved
    /\ Len(log.fetched) = 2
    /\ log.upserts = <<log.fetched[2]>>
    /\ res.errors = 1

\* C8: invoked again and again without reset, with the cursor row readable
\* and writable, the driver eventually answers 'complete' and answers
\* 'complete' ever after.
C8_EventuallyComplete == <>[](ResStatus(res) = "complete")

\* C9: a run of the documented loop that started with no cursor row stops
\* only when every bill number was processed and the cursor is completed
\* (the completed flag of an empty candidate list is left to C4).
C9_LoopRunsToCompletion ==
    caller = "stopped_fresh" =>
        /\ HasCursor
        /\ Cursor.position = Cursor.total
        /\ Cursor.total > 0 => Cursor.completed

\* The rows of a cache table without their cached_at column.
WithoutCachedAt(table) ==
    {[bill_number |-> x.bill_number, details |-> x.details] : x \in table}

\* C11: a batch step run a second time from the cursor row the first run
\* read, under the same answers, leaves the rows of the cache table that one
\* run leaves (cached_at apart, and no row twice) and the cursor row that one
\* run leaves.
C11_BatchStepIdempotent ==
    trial.op = "batch_twice" =>
        /\ WithoutCachedAt(trial.twice.cache) = WithoutCachedAt(trial.once.cache)
        /\ Cardinality(trial.twice.cache) = Cardinality(trial.once.cache)
        /\ trial.twice.cursor = trial.once.cursor

\* The second run wrote a row again, over a row of an earlier build whose
\* details the upstream has changed since: the tables differ in cached_at.
C11_Witness ==
    /\ trial.op = "batch_twice"
    /\ trial.twice.cache # trial.once.cache
    /\ \E x \in trial.table, y \in trial.twice.cache :
          /\ x.bill_number = y.bill_number
          /\ x.details # y.details
          /\ y.cached_at = 2
    /\ trial.once.cursor.position > trial.cursor.position

\* C12: an invocation killed inside the batch step leaves the cursor row as it
\* was, and a batch step that follows reads that row and fetches again the
\* bill numbers the killed invocation fetched; in every state each bill
\* number below the position of the cursor row has had a detail fetch.
C12_AtLeastOnce ==
    /\ [](HasCursor =>
            \A i \in 1..Cursor.position : Cursor.bill_numbers[i] \in attempted)
    /\ [][/\ log'.path = "crash" => lims_cache_cursor' = lims_cache_cursor
          /\ (log.path = "crash" /\ log'.path = "batch") =>
                /\ log'.loaded = lims_cache_cursor
                /\ Range(log.fetched) \subseteq Range(log'.fetched)]_vars

\* An invocation was killed after it fetched bill numbers past a position
\* that earlier batch steps had advanced.
C12_Witness ==
    /\ log.path = "crash"
    /\ Len(log.fetched) >= 1
    /\ HasCursor
    /\ Cursor.position > 0
    /\ \E b \in Range(log.fetched) : b \in attempted /\ b \notin Range(Slice(Cursor.bill_numbers, 0, Cursor.position))

\* C13: with two invocations that overlap, none of them a reset, the position
\* of the cursor row never decreases, and the completed flag is never set
\* while a bill number of the candidate list has had no detail fetch.
C13_OverlapSafe ==
    /\ [](HasCursor /\ Cursor.completed =>
            Range(Cursor.bill_numbers) \subseteq attempted)
    /\ [][HasCursor /\ lims_cache_cursor' # <<>> =>
            lims_cache_cursor'[1].position >= Cursor.position]_vars

\* The last invocation carried the reset flag, sent the DELETE and answered
\* 200.
ResetInvoked == req.reset /\ log.deletes = 1 /\ res.code = 200

\* C14: an invocation with the reset flag never reads the cursor row that was
\* there before it, whatever the state of that row: it takes the bootstrap
\* branch and leaves a new cursor row at position 0.
C14_ResetRestarts ==
    ResetInvoked =>
        /\ log.loaded = <<>>
        /\ BootstrapSaved
        /\ HasCursor /\ Cursor.position = 0

\* C15: no invocation removes a row of the cache table: the bill numbers
\* that hold a row only grow and each keeps one row; an invocation with the
\* reset flag that does not reach the batch step leaves the table as it was.
C15_CacheOnlyGrows ==
    [][/\ CachedNumbers(lims_bill_cache) \subseteq CachedNumbers(lims_bill_cache')
       /\ Cardinality(lims_bill_cache') >= Cardinality(lims_bill_cache)
       /\ (req'.reset /\ log'.path # "batch") =>
              lims_bill_cache' = lims_bill_cache]_vars

\* A reset deleted the cursor row of a build that had cached rows, and the
\* bootstrap that followed in the same invocation left them in the table.
C15_Witness ==
    /\ req.reset
    /\ BootstrapSaved
    /\ log.deletes = 1
    /\ Cardinality(lims_bill_cache) >= 2

\* C16: an invocation that is neither the scheduled trigger nor carries the
\* configured secret is answered 401 and does nothing else: no DELETE even
\* with the reset flag, no read or write of the store, no call of the
\* upstream; also when no secret is configured.
C16_UnauthorizedRejected ==
    [][(~req'.cron /\ ~(req'.secretSet /\ req'.bearer = "match")) =>
          /\ res' = [code |-> 401, error |-> "Unauthorized"]
          /\ lims_cache_cursor' = lims_cache_cursor
          /\ lims_bill_cache' = lims_bill_cache
          /\ log'.deletes = 0 /\ log'.reads = 0 /\ log'.cursorWrites = 0
          /\ log'.searches = 0 /\ log'.fetched = <<>> /\ log'.upserts = <<>>]_vars

\* With no secret configured, a request with the reset flag whose header is
\* the bearer template was rejected while a cursor row of a build under way
\* was there to delete.
C16_Witness ==
    /\ ~req.cron /\ ~req.secretSet /\ req.bearer = "match" /\ req.reset
    /\ res.code = 401
    /\ HasCursor /\ Cursor.position > 0 /\ ~Cursor.completed

\* C17: whatever call fails in an invocation (the DELETE of the reset, the
\* read of the cursor row, its first write, the write of the position, a
\* search page), the invocation answers 200 with a summary whose errors
\* field counts the failure.
C17_FailuresReported ==
    log.error \in {"reset", "cursor_read", "cursor_upsert", "cursor_patch", "search"} =>
        /\ res.code = 200
        /\ "errors" \in DOMAIN res
        /\ res.errors >= 1

\* C18: a bootstrap whose search call fails after bill numbers were
\* collected writes the cursor row with the bill numbers collected so far.
C18_SearchFailureKeeps ==
    (log.path = "bootstrap" /\ log.error = "search" /\ log.collected # <<>>) =>
        /\ HasCursor
        /\ Cursor.bill_numbers = log.collected

\* C19: a bill number the upstream does not hold (404, or an empty payload)
\* is neither counted as upserted nor as an error and gets no row in the
\* cache table, and the batch goes on to the next bill number.
C19_NotFoundSkipped ==
    BatchSaved =>
        /\ Len(log.fetched) = Len(Batch(log.loaded[1]))
        /\ res.upserted + res.errors = Len(log.fetched) - Len(log.missing)
        /\ Range(log.missing) \cap Range(log.upserts) = {}

\* C20: every authorized invocation that answers 200, whatever its branch,
\* returns a status tag among initialized, in_progress and complete together
\* with position, total and the counts upserted, skipped and errors.
C20_ResultShape ==
    (Authorized(req) /\ res.code = 200) =>
        /\ ResStatus(res) \in {"initialized", "in_progress", "complete"}
        /\ {"position", "total", "upserted", "skipped", "errors"} \subseteq DOMAIN res

\* C22: total is the length of bill_numbers in every state, and no invocation
\* without the reset flag, batch step and completed short-circuit included,
\* changes bill_numbers or total of a cursor row that exists.
C22_CandidateListFrozen ==
    /\ [](HasCursor => Cursor.total = Len(Cursor.bill_numbers))
    /\ [][(HasCursor /\ (~req'.reset \/ log'.path \in {"batch", "complete"})) =>
            /\ lims_cache_cursor' # <<>>
            /\ lims_cache_cursor'[1].bill_numbers = Cursor.bill_numbers
            /\ lims_cache_cursor'[1].total = Cursor.total]_vars

\* A completed short-circuit on a cursor row that batch steps advanced twice.
C22_Witness ==
    /\ log.path = "complete"
    /\ batches >= 2
    /\ HasCursor /\ Cursor.total = MaxBills /\ Cursor.position = Cursor.total

\* C30: the counts of a batch-step result account for the slice: upserted +
\* skipped + errors is the new position minus the old one, and upserted is
\* the number of cache upserts that succeeded in the invocation.
C30_CountsAccountForSlice ==
    BatchSaved =>
        /\ "skipped" \in DOMAIN res
        /\ res.upserted + res.skipped + res.errors =
               res.position - log.loaded[1].position
        /\ res.upserted = Len(log.upserts)

\* The legislationNumbers of the matches of all categories, in the order the
\* pages deliver them, those without a number left out.
RECURSIVE Numbers(_)
Numbers(records) ==
    IF records = <<>> THEN <<>>
    ELSE IF Head(records).legislationNumber = Null THEN Numbers(Tail(records))
         ELSE <<Head(records).legislationNumber>> \o Numbers(Tail(records))

\* The place where x is first met in s.
FirstSeen(x, s) == CHOOSE k \in 1..Len(s) : s[k] = x /\ \A m \in 1..(k - 1) : s[m] # x

\* C21: the candidate list holds every bill number the pages delivered, none
\* of them twice, in the order in which each was first met across the pages
\* of the categories.
C21_FirstSeenOrder ==
    trial.op = "collect" =>
        LET stream == Numbers(trial.lists[1] \o trial.lists[2])
            list   == trial.allBillNumbers
        IN  /\ Range(list) = Range(stream)
            /\ \A i, j \in 1..Len(list) : i < j =>
                  /\ list[i] # list[j]
                  /\ FirstSeen(list[i], stream) < FirstSeen(list[j], stream)

\* A bill number of the first page came back on the second page and in the
\* second category, after another bill number.
C21_Witness ==
    /\ trial.op = "collect"
    /\ Len(trial.lists[1]) > PAGE_SIZE
    /\ trial.lists[1][1].legislationNumber = 2
    /\ trial.lists[1][2].legislationNumber = 1
    /\ trial.lists[1][PAGE_SIZE + 1].legislationNumber = 2
    /\ Len(trial.lists[2]) = 2
    /\ trial.lists[2][1].legislationNumber = 1
    /\ trial.lists[2][2].legislationNumber = 3
    /\ Len(trial.allBillNumbers) = 3

\* The dates of the candidates of the last trial that lie after its now.
FutureDates ==
    {c.date : c \in {x \in Range(HearingCandidates(trial.details)) : x.date > trial.now}}

\* C24: the next hearing is the earliest candidate date strictly after now,
\* and none when no candidate date is after now.
C24_NextHearingIsEarliestFuture ==
    trial.op = "hearing" =>
        IF FutureDates = {}
        THEN trial.hearing.date = Null
        ELSE /\ trial.hearing.date \in FutureDates
             /\ \A d \in FutureDates : trial.hearing.date <= d

\* C28: the selected next hearing never carries a date whose year is 2000 or
\* earlier.
C28_NoImplausibleDate ==
    (trial.op = "hearing" /\ trial.hearing.date # Null) =>
        Year(trial.hearing.date) > 2000

\* C29: limsGet, limsPost and fetchLegislationDetails return data only when
\* the upstream answered 200, and throw otherwise; the cache table gets a
\* row only for a bill number whose detail request the upstream answered 200
\* with the JSON of a record.
C29_FailuresNotSwallowed ==
    trial.op = "client" =>
        /\ \A i \in DOMAIN trial.answers :
              /\ ~trial.got[i].threw => trial.answers[i].status = 200
              /\ trial.answers[i].status # 200 => trial.got[i].threw
        /\ ~trial.page.threw => trial.answers[1].status = 200
        /\ ~trial.fetched.threw => trial.answers[1].status = 200
        /\ \A row \in trial.cache :
              \E i \in DOMAIN trial.answers :
                 /\ Batch(trial.cursor)[i] = row.bill_number
                 /\ trial.answers[i] = [status |-> 200, body |-> "details"]
                 /\ row.details = "details"

\* The upstream answered 404 with JSON that has no error member for the
\* first bill number of the slice and a record for the second: one row.
C29_Witness ==
    /\ trial.op = "client"
    /\ Len(trial.answers) = 2
    /\ trial.answers[1] = [status |-> 404, body |-> "problem"]
    /\ trial.answers[2] = [status |-> 200, body |-> "details"]
    /\ trial.got[1].threw
    /\ Cardinality(trial.cache) = 1


\* A check-hearings invocation that got as far as its loop.
HearingsRan == run.handler = "hearings" /\ "items" \in DOMAIN run

\* C23: within one invocation at most one upstream detail fetch is in flight
\* at any time, in the hearing check as in the batch driver.
C23_OneFetchInFlight ==
    HearingsRan => Cardinality(run.inFlight) <= 1

\* C25: every tracked item whose detail fetch succeeded has its PATCH sent in
\* that run, with the hearing fields of the details just fetched, null when
\* they hold no hearing; a PATCH the store accepted is what the row holds.
C25_FetchedIsPatched ==
    HearingsRan =>
        \A f \in run.fetched :
            \E p \in run.patches :
                /\ p.id = f.id
                /\ p.next_hearing_date = extractNextHearing(f.details, run.now).date
                /\ HearingCandidates(f.details) = <<>> =>
                       p.next_hearing_date = Null /\ p.hearing_type = "null"
                /\ p.ok => tracked_items[f.id].next_hearing_date = p.next_hearing_date

\* A finished run patched an item that has no hearing and had none stored.
C25_Witness ==
    /\ HearingsRan /\ run.pc = "done" /\ run.code = 200
    /\ \E f \in run.fetched, p \in run.patches :
         /\ p.id = f.id /\ p.ok
         /\ HearingCandidates(f.details) = <<>>
         /\ p.next_hearing_date = Null
         /\ ~p.changes


\* A check-hearings invocation that loaded its tables.
DetectorRan == run.handler = "detector" /\ "stored" \in DOMAIN run

\* The status events the last invocation appended for item id.
AppendedFor(id) ==
    SelectSeq(SubSeq(bill_status_history, run.eventsBefore + 1,
                     Len(bill_status_history)),
              LAMBDA e : e.item_id = id)

C27_LedgerBeforeNotification ==
    DetectorRan =>
        /\ \A key \in run.alreadyAlerted :
               key \notin Range(run.results.newKeywordMatches)
        /\ \A key \in run.notified : key \in keyword_alert_log


\* The search calls the last page loop made for one category, in order.
RequestsOf(categoryId) ==
    SelectSeq(trial.requests, LAMBDA q : q.categoryId = categoryId)

\* The records of the pages a sequence of search calls got.
RECURSIVE PagesOf(_)
PagesOf(requests) ==
    IF requests = <<>> THEN <<>>
    ELSE Head(requests).page \o PagesOf(Tail(requests))

\* C31: the pages of a category are requested at the offsets 0, PAGE_SIZE,
\* 2*PAGE_SIZE, ...; the loop of the category stops right after the first
\* page that is no array, is empty or is shorter than PAGE_SIZE, whose entries
\* are still collected; then the next category is paged, and the loop ends
\* after at most one call more than the category has full pages.
C31_PagesByOffset ==
    trial.op = "pages" =>
        /\ trial.requests =
               RequestsOf(CATEGORY_IDS[1]) \o RequestsOf(CATEGORY_IDS[2])
        /\ Range(trial.allBillNumbers) = Range(Numbers(PagesOf(trial.requests)))
        /\ \A k \in 1..Len(CATEGORY_IDS) :
               LET rq == RequestsOf(CATEGORY_IDS[k])
               IN  /\ Len(rq) >= 1
                   /\ Len(rq) <= Len(trial.lists[k]) \div PAGE_SIZE + 1
                   /\ \A n \in 1..Len(rq) :
                          /\ rq[n].offset = (n - 1) * PAGE_SIZE
                          /\ n < Len(rq) <=>
                                 (rq[n].isArray /\ Len(rq[n].page) = PAGE_SIZE)

\* The first category was paged up to a short third page, whose bill number
\* is the only one collected from it, and the second category was paged.
C31_Witness ==
    /\ trial.op = "pages"
    /\ trial.notArrayAt = 0
    /\ Len(RequestsOf(CATEGORY_IDS[1])) = 3
    /\ Numbers(RequestsOf(CATEGORY_IDS[1])[1].page) = <<>>
    /\ Numbers(RequestsOf(CATEGORY_IDS[1])[2].page) = <<>>
    /\ Numbers(RequestsOf(CATEGORY_IDS[1])[3].page) = <<1>>
    /\ Len(RequestsOf(CATEGORY_IDS[2])) = 1
    /\ trial.allBillNumbers = <<1, 2>>


\* C32: a bootstrap whose search call throws writes no cursor row, so the
\* next invocation that reads the cursor table finds none and takes the
\* bootstrap branch again; a bootstrap that wrote the row made no failing
\* call and paged every category.
C32_BootstrapAllOrNothing ==
    /\ [](log.path = "bootstrap" /\ log.error = "search" =>
             ~HasCursor /\ log.cursorWrites = 0)
    /\ [](BootstrapSaved =>
             log.error = "none" /\ log.searches >= Len(CATEGORY_IDS))
    /\ [][(log.path = "bootstrap" /\ log.error = "search") =>
             log'.path \in {"unauthorized", "reset_throws", "read_fails",
                            "bootstrap"}]_vars

\* A bootstrap collected bill numbers, then a search call threw: there is
\* no cursor row.
C32_Witness ==
    /\ log.path = "bootstrap" /\ log.error = "search"
    /\ log.collected # <<>>
    /\ log.searches >= 2
    /\ ~HasCursor


\* C33: the status tag of a batch step that saved the cursor is 'complete'
\* exactly when the row it wrote has completed = true and position = total,
\* and 'in_progress' exactly when the written position is below total; the
\* tag 'initialized' comes only from an invocation that found no cursor row
\* and wrote one.
C33_StatusAgreesWithCursor ==
    /\ BatchSaved =>
           /\ HasCursor
           /\ ResStatus(res) \in {"complete", "in_progress"}
           /\ ResStatus(res) = "complete" <=>
                  (Cursor.completed /\ Cursor.position = Cursor.total)
           /\ ResStatus(res) = "in_progress" <=>
                  (~Cursor.completed /\ Cursor.position < Cursor.total)
           /\ res.position = Cursor.position
    /\ ResStatus(res) = "initialized" =>
           /\ BootstrapSaved
           /\ log.loaded = <<>>
           /\ HasCursor /\ Cursor.position = 0

\* The batch step that wrote the last position answered 'complete', after
\* one that answered 'in_progress'.
C33_Witness ==
    /\ BatchSaved
    /\ batches = 2
    /\ ResStatus(res) = "complete"
    /\ Cursor.completed /\ Cursor.position = Cursor.total
    /\ log.loaded[1].position > 0


\* C34: an invocation with the reset flag that issued its DELETE and answered
\* 200, whether the store deleted the row or rejected the request, processed
\* no batch and reports no 'complete': its tag is 'initialized' and the
\* cursor row is new, at position 0.
C34_ResetNeverContinues ==
    (req.reset /\ log.deletes = 1 /\ res.code = 200) =>
        /\ log.path \notin {"batch", "complete"}
        /\ log.fetched = <<>>
        /\ ResStatus(res) # "none" =>
               (ResStatus(res) = "initialized" /\ HasCursor /\ Cursor.position = 0)


\* The items of the last hearing check whose detail fetch or PATCH failed.
FailedItems ==
    Range(run.items) \ {p.id : p \in {q \in run.patches : q.ok}}

\* C35: in a hearing check the failure of one item keeps no other item from
\* being checked, and the counters are exact under every order in which the
\* callbacks of a batch end: updated + len(errors) = checked throughout, and
\* once the loop has ended checked is the number of items loaded, errors
\* holds each failed item once and no other, and withUpcoming <= updated.
C35_CountersExact ==
    HearingsRan =>
        /\ run.results.updated + Len(run.results.errors) = run.results.checked
        /\ run.results.withUpcoming <= run.results.updated
        /\ \A i, j \in 1..Len(run.results.errors) :
               i # j => run.results.errors[i] # run.results.errors[j]
        /\ run.pc \in {"log", "done"} =>
               /\ run.results.checked = Len(run.items)
               /\ Range(run.results.errors) = FailedItems
               /\ run.results.updated = Cardinality({q \in run.patches : q.ok})

\* A finished run in which one detail fetch and one PATCH failed, the second
\* failure reported first, and the third item has a hearing to come.
C35_Witness ==
    /\ HearingsRan /\ run.pc = "done"
    /\ Len(run.items) = MaxTracked
    /\ Len(run.results.errors) = 2
    /\ run.results.errors[1] > run.results.errors[2]
    /\ \E q \in run.patches : ~q.ok
    /\ Cardinality(run.fetched) = MaxTracked - 1
    /\ run.results.updated = MaxTracked - 2
    /\ run.results.withUpcoming = 1

\* C36: a hearing check that cannot load the tracked items answers 500 and
\* one that loads none answers 200 with checked = 0, both in one step from the
\* start, with no detail fetch, no PATCH and no row changed; the write of the
\* summary to activity_log, failing or not, ends the check with 200 and the
\* results the loop left.
C36_LoadAndSummaryFailures ==
    [][/\ (run'.handler = "hearings" /\ run'.code = 500) =>
              /\ run.pc = "done" /\ run'.pc = "done"
              /\ "fetched" \notin DOMAIN run'
              /\ tracked_items' = tracked_items
       /\ (run'.handler = "hearings" /\ "items" \in DOMAIN run' /\ run'.items = <<>>) =>
              /\ run.pc = "done" /\ run'.pc = "done"
              /\ run'.code = 200 /\ run'.response.checked = 0
              /\ run'.fetched = {} /\ run'.patches = {}
              /\ tracked_items' = tracked_items
       /\ (run.handler = "hearings" /\ run.pc = "log") =>
              /\ run'.pc = "done" /\ run'.code = 200
              /\ run'.response = run.results
              /\ run'.results = run.results
              /\ tracked_items' = tracked_items]_vars

\* A check ended with its results although the summary was not written.
C36_Witness ==
    /\ HearingsRan /\ run.pc = "done" /\ run.items # <<>>
    /\ ~run.activityLogged
    /\ run.code = 200
    /\ run.response = run.results
    /\ run.results.updated >= 1

====
